---- MODULE Spec2Model ----
(***************************************************************************)
(* The speech playback engine of src/services/audio.ts (class              *)
(* AudioService) as a state machine.  Every public method is one atomic    *)
(* action (JavaScript runs a method to completion); every callback of the  *)
(* speech primitive (onboundary, onend, onerror) and every setTimeout      *)
(* continuation is an action of its own.                                   *)
(*                                                                         *)
(* Texts are sequences of one-character strings.  Volumes are in           *)
(* hundredths (100 is 1.0), seek percentages in tenths of a percent        *)
(* (1000 is 100%): the steps of the two sliders of the player.  A progress *)
(* percentage is the exact fraction <<numerator, denominator>> in lowest   *)
(* terms.                                                                  *)
(***************************************************************************)
EXTENDS Integers, Sequences, FiniteSets, TLC

VARIABLES
    isPlaying,          \* this.isPlaying
    queue,              \* this.queue: the segments
    queueLengths,       \* this.queueLengths
    totalLength,        \* this.totalLength
    currentTextIndex,   \* this.currentTextIndex
    resumeCharIndex,    \* this.resumeCharIndex
    currentUtterance,   \* this.currentUtterance
    state,              \* this.state: the snapshot published to listeners
    listeners,          \* this.listeners
    delivered,          \* what each observer was last called with
    synth,              \* the utterance in window.speechSynthesis
    events,             \* error events of cancelled utterances, not yet dispatched
    timeouts,           \* pending setTimeout(() => this.speakNextChunk(0)) continuations
    audioPaused,        \* this.audio.paused
    audioCurrentTime,   \* this.audio.currentTime: 0, or 1 for any later position
    mediaMetadata,      \* navigator.mediaSession.metadata
    mediaPlaybackState  \* navigator.mediaSession.playbackState

vars == <<isPlaying, queue, queueLengths, totalLength, currentTextIndex,
          resumeCharIndex, currentUtterance, state, listeners, delivered,
          synth, events, timeouts, audioPaused, audioCurrentTime,
          mediaMetadata, mediaPlaybackState>>

----------------------------------------------------------------------------
(* Bounds of the model *)

MaxTimeouts == 1
MaxEvents == 1
MaxDelayed == 2

----------------------------------------------------------------------------
(* Characters and strings *)

Terminators == {".", "?", "!"}
Closers == {"]", ")", "'", "\""}
LineTerminators == {"\n", "\r"}
WhiteSpace == {" ", "\t", "\n", "\r"}

ChunkLimit == 200

SetMin(S) == CHOOSE x \in S : \A y \in S : x <= y
SetMax(S) == LET N == {0 - x : x \in S} IN 0 - SetMin(N)

Rep(c, n) == [i \in 1..n |-> c]

\* String.prototype.trim
trim(s) ==
    LET keep == {i \in 1..Len(s) : s[i] \notin WhiteSpace}
    IN  IF keep = {} THEN <<>> ELSE SubSeq(s, SetMin(keep), SetMax(keep))

\* String.prototype.substring(offset), offset >= 0 (0-based)
substring(s, offset) ==
    IF offset >= Len(s) THEN <<>> ELSE SubSeq(s, offset + 1, Len(s))

\* A greedy run of [^...] from position p: the last index q >= p - 1 such that
\* no character of s[p..q] is in the set Not.
RunEnd(s, p, Not) ==
    LET stops == {i \in p..Len(s) : s[i] \in Not}
    IN  IF stops = {} THEN Len(s) ELSE SetMin(stops) - 1

\* A greedy run of [...] from position p: the last index q >= p - 1 such that
\* every character of s[p..q] is in the set In.
RunEndIn(s, p, In) ==
    LET stops == {i \in p..Len(s) : s[i] \notin In}
    IN  IF stops = {} THEN Len(s) ELSE SetMin(stops) - 1

\* text.match(/[^.?!]+[.?!]+[\])'"]*|[^.?!]+$/g), scanning from position p.
\* Where no alternative matches (terminators at p) the scan moves past them.
RECURSIVE SentenceScan(_, _)
SentenceScan(text, p) ==
    IF p > Len(text) THEN <<>>
    ELSE IF text[p] \in Terminators
         THEN SentenceScan(text, RunEndIn(text, p, Terminators) + 1)
    ELSE LET e1 == RunEnd(text, p, Terminators)
         IN  IF e1 = Len(text) THEN <<SubSeq(text, p, e1)>>
             ELSE LET e2 == RunEndIn(text, e1 + 1, Terminators)
                      e3 == RunEndIn(text, e2 + 1, Closers)
                  IN  <<SubSeq(text, p, e3)>> \o SentenceScan(text, e3 + 1)

\* The backtracking of .{1,200}(?:\s|$) at position p: the largest k, over at
\* most 200 characters p..k without a line terminator, with white space at
\* k + 1 or the end of the string at k (p - 1 when there is none).
ChunkBreak(t, p) ==
    LET run == RunEnd(t, p, LineTerminators)
        last == IF run > p + ChunkLimit - 1 THEN p + ChunkLimit - 1 ELSE run
        cands == {k \in p..last : k = Len(t) \/ t[k + 1] \in WhiteSpace}
    IN  IF cands = {} THEN p - 1 ELSE SetMax(cands)

\* trimmed.match(/.{1,200}(?:\s|$)/g), scanning from position p.  Where the
\* pattern does not match, the scan moves on to the next position where it does.
RECURSIVE ChunkScan(_, _)
ChunkScan(t, p) ==
    IF p > Len(t) THEN <<>>
    ELSE LET n == Len(t)
             k == ChunkBreak(t, p)
         IN  IF k < p
             THEN LET starts == {q \in (p + 1)..n : ChunkBreak(t, q) >= q}
                  IN  IF starts = {} THEN <<>> ELSE ChunkScan(t, SetMin(starts))
             ELSE LET e == IF k < n THEN k + 1 ELSE n
                  IN  <<SubSeq(t, p, e)>> \o ChunkScan(t, e + 1)

\* The body of sentences.forEach in play(): what one sentence adds to the queue
ChunkSentence(s) ==
    LET trimmed == trim(s)
    IN  IF trimmed = <<>> THEN <<>>
        ELSE IF Len(trimmed) > ChunkLimit
             THEN LET parts == ChunkScan(trimmed, 1)
                  IN  IF parts = <<>> THEN <<trimmed>> ELSE parts
             ELSE <<trimmed>>

RECURSIVE Flatten(_)
Flatten(ss) == IF ss = <<>> THEN <<>> ELSE ChunkSentence(Head(ss)) \o Flatten(Tail(ss))

\* The queue play() builds from a text
Segments(text) ==
    LET m == SentenceScan(text, 1)
        sentences == IF m = <<>> THEN <<text>> ELSE m
    IN  Flatten(sentences)

RECURSIVE SumTo(_, _)
SumTo(lens, n) == IF n <= 0 THEN 0 ELSE SumTo(lens, n - 1) + (IF n <= Len(lens) THEN lens[n] ELSE 0)

RECURSIVE Gcd(_, _)
Gcd(a, b) == IF b = 0 THEN a ELSE Gcd(b, a % b)

\* (currentPos / totalLength) * 100 as a fraction in lowest terms
Pct(pos, total) ==
    IF total > 0
    THEN LET g == Gcd(100 * pos, total) IN <<(100 * pos) \div g, total \div g>>
    ELSE <<0, 1>>

----------------------------------------------------------------------------
(* Inputs *)

Hello == <<"H", "e", "l", "l", "o", " ", "w", "o", "r", "l", "d", ".">>
Three == <<"A", " ", "b", ".", " ", "C", ".", " ", "D", " ", "e", ".">>
LongRun == Rep("a", ChunkLimit) \o <<" ", "b">>
Blank == <<" ", "\n">>
DotBlank == <<".", " ">>

\* Texts of one unit longer than the chunk limit
Words500 == Rep("a", 199) \o <<" ">> \o Rep("a", 199) \o <<" ">> \o Rep("a", 100)
Solid500 == Rep("a", 500)
Gap == <<"a">> \o Rep(" ", 2 * ChunkLimit + 1) \o <<"b">>

Texts == {<<>>, Blank, DotBlank, Hello, Three, LongRun}
Titles == {"T1"}
Authors == {"Folio"}
Colors == {"c1"}
VolumeInputs == {-20, 130}
SeekInputs == {-50, 0, 400, 450, 995, 1000, 1200}
Observers == {"o1", "o2"}
ObsTexts == {Blank, Hello}
DelayTexts == {Hello, Three}
SegTexts == {Blank, DotBlank, Hello, Three, LongRun, Words500, Solid500, Gap}

\* The queue of each input text, computed once
SegTable == [t \in Texts \cup SegTexts |-> Segments(t)]

----------------------------------------------------------------------------
(* The engine and the platform objects it drives, as one record, so that   *)
(* the methods compose as the code calls them.                             *)

NoUtterance == [index |-> -1, offset |-> -1, volume |-> -1]
NoAct == [index |-> -1, offset |-> -1, phase |-> "none", boundary |-> -1]
NoMetadata == [title |-> "", artist |-> "", album |-> "", artwork |-> <<>>]
NoSnapshot == [isPlaying |-> FALSE, title |-> "", author |-> "", coverColor |-> "",
               volume |-> -1, hasContent |-> FALSE, progress |-> <<0, 1>>,
               currentSegment |-> -1, totalSegments |-> -1]

World ==
    [isPlaying |-> isPlaying, queue |-> queue, queueLengths |-> queueLengths,
     totalLength |-> totalLength, currentTextIndex |-> currentTextIndex,
     resumeCharIndex |-> resumeCharIndex, currentUtterance |-> currentUtterance,
     state |-> state, listeners |-> listeners, delivered |-> delivered,
     synth |-> synth, events |-> events, timeouts |-> timeouts,
     audioPaused |-> audioPaused, audioCurrentTime |-> audioCurrentTime,
     mediaMetadata |-> mediaMetadata, mediaPlaybackState |-> mediaPlaybackState]

Commit(w) ==
    /\ isPlaying' = w.isPlaying
    /\ queue' = w.queue
    /\ queueLengths' = w.queueLengths
    /\ totalLength' = w.totalLength
    /\ currentTextIndex' = w.currentTextIndex
    /\ resumeCharIndex' = w.resumeCharIndex
    /\ currentUtterance' = w.currentUtterance
    /\ state' = w.state
    /\ listeners' = w.listeners
    /\ delivered' = w.delivered
    /\ synth' = w.synth
    /\ events' = w.events
    /\ timeouts' = w.timeouts
    /\ audioPaused' = w.audioPaused
    /\ audioCurrentTime' = w.audioCurrentTime
    /\ mediaMetadata' = w.mediaMetadata
    /\ mediaPlaybackState' = w.mediaPlaybackState

\* The model follows a step only while its pending work fits the bounds.
Bounded(w) ==
    /\ w.timeouts <= MaxTimeouts
    /\ w.events.canceled + w.events.interrupted <= MaxEvents

\* speechSynthesis.cancel(): the utterance leaves the queue at once; its error
\* event ('interrupted' when it had begun being spoken, 'canceled' when not)
\* is dispatched later.
synthCancel(w) ==
    IF w.synth.phase = "none" THEN w
    ELSE [w EXCEPT !.synth = NoAct,
                   !.events = IF w.synth.phase = "speaking"
                              THEN [@ EXCEPT !.interrupted = @ + 1]
                              ELSE [@ EXCEPT !.canceled = @ + 1]]

notify_All(w) == [w EXCEPT !.delivered = [o \in Observers |-> w.state]]

notify(w) ==
    [w EXCEPT !.delivered = [o \in Observers |->
                               IF o \in w.listeners THEN w.state ELSE w.delivered[o]]]

updateProgressState(w) ==
    LET currentPos == SumTo(w.queueLengths, w.currentTextIndex) + w.resumeCharIndex
        pct == Pct(currentPos, w.totalLength)
    IN  notify([w EXCEPT !.state = [@ EXCEPT !.isPlaying = w.isPlaying,
                                             !.currentSegment = w.currentTextIndex + 1,
                                             !.totalSegments = Len(w.queue),
                                             !.progress = pct]])

stop_KeepOffset(w) ==
    LET w1 == notify([w EXCEPT !.isPlaying = FALSE,
                               !.state = [@ EXCEPT !.isPlaying = FALSE,
                                                   !.hasContent = FALSE,
                                                   !.progress = <<0, 1>>,
                                                   !.currentSegment = 0,
                                                   !.totalSegments = 0]])
        w2 == synthCancel(w1)
    IN  [w2 EXCEPT !.audioPaused = TRUE,
                   !.audioCurrentTime = 0,
                   !.currentUtterance = NoUtterance,
                   !.queue = <<>>,
                   !.queueLengths = <<>>,
                   !.totalLength = 0,
                   !.currentTextIndex = 0,
                   !.mediaPlaybackState = "none"]

stop_KeepQueue(w) ==
    LET w1 == notify([w EXCEPT !.isPlaying = FALSE,
                               !.state = [@ EXCEPT !.isPlaying = FALSE,
                                                   !.hasContent = FALSE,
                                                   !.progress = <<0, 1>>,
                                                   !.currentSegment = 0,
                                                   !.totalSegments = 0]])
        w2 == synthCancel(w1)
    IN  [w2 EXCEPT !.audioPaused = TRUE,
                   !.audioCurrentTime = 0,
                   !.currentUtterance = NoUtterance,
                   !.currentTextIndex = 0,
                   !.resumeCharIndex = 0,
                   !.mediaPlaybackState = "none"]

stop(w) ==
    LET w1 == notify([w EXCEPT !.isPlaying = FALSE,
                               !.state = [@ EXCEPT !.isPlaying = FALSE,
                                                   !.hasContent = FALSE,
                                                   !.progress = <<0, 1>>,
                                                   !.currentSegment = 0,
                                                   !.totalSegments = 0]])
        w2 == synthCancel(w1)
    IN  [w2 EXCEPT !.audioPaused = TRUE,
                   !.audioCurrentTime = 0,
                   !.currentUtterance = NoUtterance,
                   !.queue = <<>>,
                   !.queueLengths = <<>>,
                   !.totalLength = 0,
                   !.currentTextIndex = 0,
                   !.resumeCharIndex = 0,
                   !.mediaPlaybackState = "none"]

speakNextChunk(w, offset) ==
    IF ~w.isPlaying THEN w
    ELSE IF w.currentTextIndex >= Len(w.queue) THEN stop(w)
    ELSE LET w1 == synthCancel(updateProgressState(w))
             originalText == w1.queue[w1.currentTextIndex + 1]
             textToSpeak == IF offset > 0 THEN substring(originalText, offset)
                            ELSE originalText
         IN  IF trim(textToSpeak) = <<>>
             THEN [w1 EXCEPT !.currentTextIndex = @ + 1,
                             !.resumeCharIndex = 0,
                             !.timeouts = @ + 1]
             ELSE [w1 EXCEPT !.currentUtterance =
                                 [index |-> w1.currentTextIndex, offset |-> offset,
                                  volume |-> w1.state.volume],
                             !.synth =
                                 [index |-> w1.currentTextIndex, offset |-> offset,
                                  phase |-> "queued", boundary |-> -1],
                             !.audioPaused = FALSE]

\* generateCoverImage(title, colorClass): an image decided by its two arguments
generateCoverImage(title, colorClass) == <<title, colorClass>>

\* play() after its empty-text return: steps 2 to 5
startSession(w0, text, title, author, coverColor) ==
    LET q == SegTable[text]
        lens == [i \in 1..Len(q) |-> Len(q[i])]
        w1 == [w0 EXCEPT !.isPlaying = TRUE,
                         !.queue = q,
                         !.queueLengths = lens,
                         !.totalLength = SumTo(lens, Len(lens)),
                         !.currentTextIndex = 0,
                         !.resumeCharIndex = 0,
                         !.state = [@ EXCEPT !.isPlaying = TRUE,
                                             !.title = title,
                                             !.author = author,
                                             !.coverColor = coverColor,
                                             !.hasContent = TRUE,
                                             !.progress = <<0, 1>>,
                                             !.currentSegment = 0,
                                             !.totalSegments = Len(q)]]
        w2 == updateProgressState(w1)
        w3 == [w2 EXCEPT !.audioPaused = FALSE,
                         !.mediaMetadata =
                             [title |-> title, artist |-> author,
                              album |-> "Folio Audio",
                              artwork |-> generateCoverImage(title, coverColor)]]
    IN  speakNextChunk(w3, 0)

pause_Rewind(w) ==
    LET w1 == notify([w EXCEPT !.isPlaying = FALSE, !.state.isPlaying = FALSE])
        w2 == synthCancel(w1)
    IN  [w2 EXCEPT !.audioPaused = TRUE, !.resumeCharIndex = 0]

pause(w) ==
    LET w1 == notify([w EXCEPT !.isPlaying = FALSE, !.state.isPlaying = FALSE])
        w2 == synthCancel(w1)
    IN  [w2 EXCEPT !.audioPaused = TRUE]

play_PauseOnBlank(w, text, title, author, coverColor) ==
    IF trim(text) = <<>> THEN pause(w)
    ELSE startSession(stop(w), text, title, author, coverColor)

play(w, text, title, author, coverColor) ==
    LET w0 == stop(w)
    IN  IF trim(text) = <<>> THEN w0
        ELSE startSession(w0, text, title, author, coverColor)

resume_FromStart(w) ==
    IF ~w.isPlaying /\ Len(w.queue) > 0
    THEN LET w1 == notify([w EXCEPT !.isPlaying = TRUE, !.state.isPlaying = TRUE])
             w2 == [w1 EXCEPT !.audioPaused = FALSE]
         IN  speakNextChunk(w2, 0)
    ELSE w

resume(w) ==
    IF ~w.isPlaying /\ Len(w.queue) > 0
    THEN LET w1 == notify([w EXCEPT !.isPlaying = TRUE, !.state.isPlaying = TRUE])
             w2 == [w1 EXCEPT !.audioPaused = FALSE]
         IN  speakNextChunk(w2, w2.resumeCharIndex)
    ELSE w

nextChunk(w) ==
    LET w1 == synthCancel(w)
        i == w1.currentTextIndex + 1
        w2 == [w1 EXCEPT !.currentTextIndex = IF i >= Len(w1.queue) THEN 0 ELSE i,
                         !.resumeCharIndex = 0]
    IN  speakNextChunk(w2, 0)

prevChunk(w) ==
    LET w1 == synthCancel(w)
        w2 == [w1 EXCEPT !.currentTextIndex = IF @ - 1 > 0 THEN @ - 1 ELSE 0,
                         !.resumeCharIndex = 0]
    IN  speakNextChunk(w2, 0)

\* Math.max(0, Math.min(100, percent)), in tenths of a percent
ClampPercent(percent) == IF percent < 0 THEN 0 ELSE IF percent > 1000 THEN 1000 ELSE percent

\* The loop of seek() from index i with accumulator acc; the target is
\* percent / 1000 * total, so acc + len > target is 1000 * (acc + len) > percent * total.
\* Yields <<found, foundIndex, foundOffset, acc>>.
RECURSIVE SeekLoop(_, _, _, _)
SeekLoop_Ge(lens, scaled, i, acc) ==
    IF i > Len(lens) THEN <<FALSE, 0, 0, acc>>
    ELSE IF 1000 * (acc + lens[i]) >= scaled
         THEN <<TRUE, i - 1, (scaled - 1000 * acc) \div 1000, acc>>
         ELSE SeekLoop(lens, scaled, i + 1, acc + lens[i])

SeekLoop(lens, scaled, i, acc) ==
    IF i > Len(lens) THEN <<FALSE, 0, 0, acc>>
    ELSE IF 1000 * (acc + lens[i]) > scaled
         THEN <<TRUE, i - 1, (scaled - 1000 * acc) \div 1000, acc>>
         ELSE SeekLoop(lens, scaled, i + 1, acc + lens[i])

SeekTarget_NoEdge(lens, total, percent) ==
    LET r == SeekLoop(lens, ClampPercent(percent) * total, 1, 0)
    IN  <<r[2], r[3]>>

\* <<foundIndex, foundOffset>> of seek(percent)
SeekTarget(lens, total, percent) ==
    LET scaled == ClampPercent(percent) * total
        r == SeekLoop(lens, scaled, 1, 0)
    IN  IF 1000 * r[4] >= scaled /\ r[2] = 0 /\ r[4] > 0
        THEN <<Len(lens) - 1, 0>>
        ELSE <<r[2], r[3]>>

seek_NoPublish(w, percent) ==
    IF w.totalLength = 0 \/ Len(w.queue) = 0 THEN w
    ELSE LET t == SeekTarget(w.queueLengths, w.totalLength, percent)
             w1 == [w EXCEPT !.currentTextIndex = t[1], !.resumeCharIndex = t[2]]
         IN  IF w1.isPlaying THEN speakNextChunk(synthCancel(w1), t[2]) ELSE w1

seek_FromStart(w, percent) ==
    IF w.totalLength = 0 \/ Len(w.queue) = 0 THEN w
    ELSE LET t == SeekTarget(w.queueLengths, w.totalLength, percent)
             w1 == updateProgressState([w EXCEPT !.currentTextIndex = t[1],
                                                 !.resumeCharIndex = t[2]])
         IN  IF w1.isPlaying THEN speakNextChunk(synthCancel(w1), 0) ELSE w1

seek(w, percent) ==
    IF w.totalLength = 0 \/ Len(w.queue) = 0 THEN w
    ELSE LET t == SeekTarget(w.queueLengths, w.totalLength, percent)
             w1 == updateProgressState([w EXCEPT !.currentTextIndex = t[1],
                                                 !.resumeCharIndex = t[2]])
         IN  IF w1.isPlaying THEN speakNextChunk(synthCancel(w1), t[2]) ELSE w1

setVolume(w, val) ==
    LET v == IF val < 0 THEN 0 ELSE IF val > 100 THEN 100 ELSE val
        w1 == [w EXCEPT !.state.volume = v]
        w2 == IF w1.currentUtterance = NoUtterance THEN w1
              ELSE [w1 EXCEPT !.currentUtterance.volume = v]
    IN  notify(w2)

subscribe(w, o) ==
    [w EXCEPT !.listeners = @ \cup {o}, !.delivered[o] = w.state]

unsubscribe(w, o) == [w EXCEPT !.listeners = @ \ {o}]

\* utterance.onboundary for a 'word' event, with the offset its closure holds
onboundary(w, offset, charIndex) == [w EXCEPT !.resumeCharIndex = offset + charIndex]

onend_NoContinuation(w) ==
    IF w.isPlaying
    THEN [w EXCEPT !.currentTextIndex = @ + 1, !.resumeCharIndex = 0]
    ELSE w

onend(w) ==
    IF w.isPlaying
    THEN [w EXCEPT !.currentTextIndex = @ + 1, !.resumeCharIndex = 0, !.timeouts = @ + 1]
    ELSE w

onerror_Ignore(w, error) == w

onerror(w, error) ==
    IF w.isPlaying /\ error # "interrupted"
    THEN [w EXCEPT !.currentTextIndex = @ + 1, !.resumeCharIndex = 0, !.timeouts = @ + 1]
    ELSE w

----------------------------------------------------------------------------
(* The state after construction *)

Init ==
    /\ isPlaying = FALSE
    /\ queue = <<>>
    /\ queueLengths = <<>>
    /\ totalLength = 0
    /\ currentTextIndex = 0
    /\ resumeCharIndex = 0
    /\ currentUtterance = NoUtterance
    /\ state = [isPlaying |-> FALSE, title |-> "", author |-> "",
                coverColor |-> "bg-stone-200", volume |-> 100, hasContent |-> FALSE,
                progress |-> <<0, 1>>, currentSegment |-> 0, totalSegments |-> 0]
    /\ listeners = {}
    /\ delivered = [o \in Observers |-> NoSnapshot]
    /\ synth = NoAct
    /\ events = [canceled |-> 0, interrupted |-> 0]
    /\ timeouts = 0
    /\ audioPaused = TRUE
    /\ audioCurrentTime = 0
    /\ mediaMetadata = NoMetadata
    /\ mediaPlaybackState = "none"

----------------------------------------------------------------------------
(* Actions: the public methods *)

PlayText(text) ==
    \E title \in Titles, author \in Authors, color \in Colors :
        LET w == play(World, text, title, author, color) IN Bounded(w) /\ Commit(w)
Play == \E text \in Texts : PlayText(text)
Pause == LET w == pause(World) IN Bounded(w) /\ Commit(w)
Resume == LET w == resume(World) IN Bounded(w) /\ Commit(w)
Stop == LET w == stop(World) IN Bounded(w) /\ Commit(w)
NextChunk == LET w == nextChunk(World) IN Bounded(w) /\ Commit(w)
PrevChunk == LET w == prevChunk(World) IN Bounded(w) /\ Commit(w)
SeekTo(percent) == LET w == seek(World, percent) IN Bounded(w) /\ Commit(w)
Seek == \E percent \in SeekInputs : SeekTo(percent)
SetVolume == \E val \in VolumeInputs : LET w == setVolume(World, val) IN Bounded(w) /\ Commit(w)
Subscribe == \E o \in Observers \ listeners : LET w == subscribe(World, o) IN Bounded(w) /\ Commit(w)
Unsubscribe == \E o \in listeners : LET w == unsubscribe(World, o) IN Bounded(w) /\ Commit(w)

(* Actions: the speech primitive, the timers and the audio element *)

\* The text of the utterance in the synthesizer
ActText == IF synth.offset > 0 THEN substring(queue[synth.index + 1], synth.offset)
           ELSE queue[synth.index + 1]

\* 0-based positions at which a word of s starts
WordStarts(s) ==
    {i - 1 : i \in {j \in 1..Len(s) :
                       s[j] \notin WhiteSpace /\ (j = 1 \/ s[j - 1] \in WhiteSpace)}}

\* The queued utterance begins to be spoken.
SpeechStart ==
    /\ synth.phase = "queued"
    /\ synth' = [synth EXCEPT !.phase = "speaking"]
    /\ UNCHANGED <<isPlaying, queue, queueLengths, totalLength, currentTextIndex,
                   resumeCharIndex, currentUtterance, state, listeners, delivered,
                   events, timeouts, audioPaused, audioCurrentTime, mediaMetadata,
                   mediaPlaybackState>>

\* A word boundary of the utterance being spoken, past the last one reported.
SpeechBoundary ==
    /\ synth.phase = "speaking"
    /\ \E c \in WordStarts(ActText) :
          /\ c > synth.boundary
          /\ LET w == onboundary([World EXCEPT !.synth.boundary = c], synth.offset, c)
             IN  Bounded(w) /\ Commit(w)

\* The utterance being spoken finishes.
SpeechEnd ==
    /\ synth.phase = "speaking"
    /\ LET w == onend([World EXCEPT !.synth = NoAct]) IN Bounded(w) /\ Commit(w)

\* The utterance fails for a reason other than a cancellation.
SpeechError ==
    /\ synth.phase # "none"
    /\ LET w == onerror([World EXCEPT !.synth = NoAct], "synthesis-failed") IN Bounded(w) /\ Commit(w)

\* The error event of a cancelled utterance is dispatched.
CancelEvent ==
    \/ /\ events.interrupted > 0
       /\ LET w == onerror([World EXCEPT !.events.interrupted = @ - 1], "interrupted")
          IN  Bounded(w) /\ Commit(w)
    \/ /\ events.canceled > 0
       /\ LET w == onerror([World EXCEPT !.events.canceled = @ - 1], "canceled")
          IN  Bounded(w) /\ Commit(w)

\* A setTimeout(() => this.speakNextChunk(0)) continuation runs.
Timeout ==
    /\ timeouts > 0
    /\ LET w == speakNextChunk([World EXCEPT !.timeouts = @ - 1], 0) IN Bounded(w) /\ Commit(w)

\* The looping audio element plays on.
AudioAdvance ==
    /\ ~audioPaused
    /\ audioCurrentTime = 0
    /\ audioCurrentTime' = 1
    /\ UNCHANGED <<isPlaying, queue, queueLengths, totalLength, currentTextIndex,
                   resumeCharIndex, currentUtterance, state, listeners, delivered,
                   synth, events, timeouts, audioPaused, mediaMetadata,
                   mediaPlaybackState>>

Next ==
    \/ Play
    \/ Pause
    \/ Resume
    \/ Stop
    \/ NextChunk
    \/ PrevChunk
    \/ Seek
    \/ SetVolume
    \/ Subscribe
    \/ SpeechStart
    \/ SpeechBoundary
    \/ SpeechEnd
    \/ SpeechError
    \/ CancelEvent
    \/ Timeout
    \/ AudioAdvance

Spec == Init /\ [][Next]_vars

\* Linear playback: each session is started from Idle and runs on without a
\* user operation on its position and without a synthesis failure.
LinearNext ==
    \/ (~isPlaying /\ Len(queue) = 0 /\ timeouts = 0 /\ Play)
    \/ SetVolume
    \/ Subscribe
    \/ SpeechStart
    \/ SpeechBoundary
    \/ SpeechEnd
    \/ Timeout
    \/ AudioAdvance

LinearSpec == Init /\ [][LinearNext]_vars

\* The segmenter at work: sessions over texts that reach the chunk splitter,
\* played, paused and skipped through.
PlaySeg == \E text \in SegTexts : PlayText(text)

SegNext ==
    \/ PlaySeg
    \/ Pause
    \/ Resume
    \/ NextChunk
    \/ PrevChunk
    \/ SpeechStart
    \/ SpeechBoundary
    \/ SpeechEnd
    \/ CancelEvent
    \/ Timeout
    \/ AudioAdvance

SegSpec == Init /\ [][SegNext]_vars

\* Playback left to itself: a session is started from Idle, no user operation
\* follows, and every speech act starts and then finishes or fails, and every
\* delayed continuation runs.
FairNext ==
    \/ (~isPlaying /\ Len(queue) = 0 /\ timeouts = 0 /\ PlaySeg)
    \/ SpeechStart
    \/ SpeechBoundary
    \/ SpeechEnd
    \/ SpeechError
    \/ Timeout
    \/ AudioAdvance

FairSpec ==
    /\ Init
    /\ [][FairNext]_vars
    /\ WF_vars(SpeechStart \/ SpeechEnd \/ SpeechError)
    /\ WF_vars(Timeout)

\* Observers coming and going while sessions are played, paused and stopped
ObsPlay == \E text \in ObsTexts : PlayText(text)

ObsNext ==
    \/ ObsPlay
    \/ Pause
    \/ Resume
    \/ Stop
    \/ SetVolume
    \/ Subscribe
    \/ Unsubscribe
    \/ SpeechStart
    \/ SpeechEnd
    \/ CancelEvent
    \/ Timeout

ObsSpec == Init /\ [][ObsNext]_vars

\* One short text with room for two delayed continuations at a time: the
\* continuation of a failed act and that of a cancellation's error event.
Wide(w) ==
    /\ w.timeouts <= MaxDelayed
    /\ w.events.canceled + w.events.interrupted <= MaxEvents

WidePlay ==
    \E text \in DelayTexts, title \in Titles, author \in Authors, color \in Colors :
        LET w == play(World, text, title, author, color) IN Wide(w) /\ Commit(w)
WidePause == LET w == pause(World) IN Wide(w) /\ Commit(w)
WideResume == LET w == resume(World) IN Wide(w) /\ Commit(w)
WideNextChunk == LET w == nextChunk(World) IN Wide(w) /\ Commit(w)
WidePrevChunk == LET w == prevChunk(World) IN Wide(w) /\ Commit(w)
WideSpeechEnd ==
    /\ synth.phase = "speaking"
    /\ LET w == onend([World EXCEPT !.synth = NoAct]) IN Wide(w) /\ Commit(w)
WideSpeechError ==
    /\ synth.phase # "none"
    /\ LET w == onerror([World EXCEPT !.synth = NoAct], "synthesis-failed")
       IN  Wide(w) /\ Commit(w)
WideInterrupted ==
    /\ events.interrupted > 0
    /\ LET w == onerror([World EXCEPT !.events.interrupted = @ - 1], "interrupted")
       IN  Wide(w) /\ Commit(w)
WideCanceled ==
    /\ events.canceled > 0
    /\ LET w == onerror([World EXCEPT !.events.canceled = @ - 1], "canceled")
       IN  Wide(w) /\ Commit(w)
WideTimeout ==
    /\ timeouts > 0
    /\ LET w == speakNextChunk([World EXCEPT !.timeouts = @ - 1], 0)
       IN  Wide(w) /\ Commit(w)

DelayNext ==
    \/ WidePlay
    \/ WidePause
    \/ WideResume
    \/ WideNextChunk
    \/ WidePrevChunk
    \/ SpeechStart
    \/ WideSpeechEnd
    \/ WideSpeechError
    \/ WideInterrupted
    \/ WideCanceled
    \/ WideTimeout

DelaySpec == Init /\ [][DelayNext]_vars

TypeOK ==
    /\ isPlaying \in BOOLEAN
    /\ currentTextIndex \in Nat
    /\ resumeCharIndex \in Nat
    /\ timeouts \in 0..MaxTimeouts

----------------------------------------------------------------------------
(* States of the engine *)

Idle == ~isPlaying /\ Len(queue) = 0
Playing == isPlaying /\ Len(queue) > 0
Paused == ~isPlaying /\ Len(queue) > 0
ActOutstanding == synth.phase # "none"

BlankTexts == {t \in Texts : trim(t) = <<>>}
SpokenTexts == Texts \ BlankTexts

----------------------------------------------------------------------------
(* C1 *)

\* C1: from any state, play(text, ...) with a text that is not empty or
\* white space only ends in Playing with the session of that text alone:
\* index 0, offset 0, hasContent and isPlaying true, and the speech act of
\* segment 0 from offset 0 outstanding.
C1_PlayStartsSession ==
    [][\A text \in SpokenTexts :
          PlayText(text) =>
              /\ isPlaying' /\ state'.isPlaying /\ state'.hasContent
              /\ queue' = SegTable[text] /\ Len(queue') > 0
              /\ currentTextIndex' = 0 /\ resumeCharIndex' = 0
              /\ synth' = [index |-> 0, offset |-> 0, phase |-> "queued",
                           boundary |-> -1]]_vars

----------------------------------------------------------------------------
(* C2 *)

\* C2 (as claimed): play() with an empty or white-space-only text is a no-op
\* in every state: segments, index, offset, playing flag and hasContent stay
\* as they were and no speech act is issued.
C2_BlankPlayIsNoOp ==
    [][\A text \in BlankTexts :
          PlayText(text) =>
              /\ UNCHANGED <<queue, currentTextIndex, resumeCharIndex, isPlaying>>
              /\ state'.hasContent = state.hasContent
              /\ synth'.phase # "queued"]_vars

\* C2 (amended): play() with an empty or white-space-only text creates no
\* session and issues no speech act or continuation, but tears the current
\* session down as stop() does: the engine is left Idle; when it was Idle
\* already, nothing changes.
C2_BlankPlayStops ==
    [][\A text \in BlankTexts :
          PlayText(text) =>
              /\ ~isPlaying' /\ ~state'.isPlaying /\ ~state'.hasContent
              /\ queue' = <<>> /\ queueLengths' = <<>> /\ totalLength' = 0
              /\ currentTextIndex' = 0 /\ resumeCharIndex' = 0
              /\ synth'.phase = "none"
              /\ timeouts' = timeouts
              /\ (Idle => UNCHANGED vars)]_vars

BlankPlay == \E text \in BlankTexts : PlayText(text)

C2_Witness == Playing /\ ActOutstanding /\ resumeCharIndex > 0 /\ ENABLED BlankPlay

----------------------------------------------------------------------------
(* C3 *)

\* C3: with an active session, nextChunk() and prevChunk() issue the speech
\* act of the newly selected segment from offset 0 before they return, when
\* Playing and when Paused.
C3_SkipSpeaks ==
    [][(Len(queue) > 0 /\ (NextChunk \/ PrevChunk)) =>
          synth' = [index |-> currentTextIndex', offset |-> 0, phase |-> "queued",
                    boundary |-> -1]]_vars

----------------------------------------------------------------------------
(* C4 *)

\* The steps that are not seek, nextChunk, prevChunk, play, stop or resume
Bystander ==
    \/ Pause \/ SetVolume \/ Subscribe \/ CancelEvent \/ Timeout
    \/ SpeechStart \/ SpeechBoundary \/ SpeechEnd \/ SpeechError \/ AudioAdvance

\* C4: after pause(), no callback or delayed continuation moves the position
\* while the engine stays Paused, and the speech act resume() then issues is
\* for the segment index and from the resumeOffset of that moment.
C4_PauseResumeKeepsPosition ==
    [][/\ (Paused /\ Bystander) =>
              UNCHANGED <<queue, currentTextIndex, resumeCharIndex, isPlaying>>
       /\ (Paused /\ Resume /\ synth'.phase # "none") =>
              /\ synth'.index = currentTextIndex
              /\ synth'.offset = resumeCharIndex
              /\ UNCHANGED <<queue, currentTextIndex, resumeCharIndex>>]_vars

C4_Witness ==
    /\ Paused /\ currentTextIndex > 0 /\ resumeCharIndex > 0
    /\ events.interrupted > 0
    /\ ENABLED (Resume /\ synth'.phase = "queued")

----------------------------------------------------------------------------
(* C5 *)

\* The position of the engine as a progress percentage
PositionPct == Pct(SumTo(queueLengths, currentTextIndex) + resumeCharIndex, totalLength)

\* C5: after every operation and notification, the snapshot last published
\* to each registered observer agrees with the engine: playing flag, volume
\* and, with a session, currentSegment = index + 1, totalSegments, progress.
C5_PublishedAgrees ==
    \A o \in listeners :
        /\ delivered[o].isPlaying = isPlaying
        /\ delivered[o].volume = state.volume
        /\ Len(queue) > 0 =>
              /\ delivered[o].currentSegment = currentTextIndex + 1
              /\ delivered[o].totalSegments = Len(queue)
              /\ delivered[o].progress = PositionPct

----------------------------------------------------------------------------
(* C6 *)

\* C6: a session that is alive with its index at the segment count is on its
\* way to being torn down (the engine is Playing and the delayed continuation
\* is pending): no such state persists.
C6_CompletionTearsDown ==
    (state.hasContent /\ currentTextIndex = Len(queue)) => (isPlaying /\ timeouts > 0)

----------------------------------------------------------------------------
(* C7 *)

\* C7: stop() in any state leaves the engine Idle (hasContent and isPlaying
\* false, no segments, total length, index and offset 0, no speech act
\* outstanding, the ambient audio paused and rewound); in Idle it changes
\* nothing.
C7_StopLeavesIdle ==
    [][Stop =>
          /\ ~state'.hasContent /\ ~isPlaying' /\ ~state'.isPlaying
          /\ queue' = <<>> /\ queueLengths' = <<>> /\ totalLength' = 0
          /\ currentTextIndex' = 0 /\ resumeCharIndex' = 0
          /\ synth'.phase = "none"
          /\ audioPaused' /\ audioCurrentTime' = 0
          /\ (Idle => UNCHANGED vars)]_vars

C7_Witness ==
    /\ Playing /\ timeouts > 0 /\ currentTextIndex > 0
    /\ ~audioPaused /\ audioCurrentTime = 1
    /\ ENABLED Stop

----------------------------------------------------------------------------
(* C8 *)

\* C8: whenever the engine is Idle, the now-playing surface holds no
\* metadata of an ended session and the ambient audio is not playing.
C8_NowPlayingCleared ==
    (Idle /\ ~state.hasContent) => (mediaMetadata = NoMetadata /\ audioPaused)

----------------------------------------------------------------------------
(* C9 *)

\* C9: in linear playback the published progress starts at 0, and the
\* snapshot published last before the one with hasContent = false has
\* progress 100.
C9_ProgressReaches100 ==
    [][/\ (Play /\ state'.hasContent) => state'.progress = <<0, 1>>
       /\ (state.hasContent /\ ~state'.hasContent) => state.progress = <<100, 1>>]_vars

----------------------------------------------------------------------------
(* C10 *)

\* Segment i (1-based) holds the target of percent: its cumulative character
\* range [start, start + len) contains percent / 1000 * totalLength.
HoldsTarget(i, percent) ==
    LET start == SumTo(queueLengths, i - 1)
        scaled == (IF percent < 0 THEN 0 ELSE IF percent > 1000 THEN 1000 ELSE percent)
                      * totalLength
    IN  1000 * start <= scaled /\ scaled < 1000 * (start + queueLengths[i])

\* The target of percent less the start of segment i, rounded down
TargetOffset(i, percent) ==
    LET start == SumTo(queueLengths, i - 1)
        scaled == (IF percent < 0 THEN 0 ELSE IF percent > 1000 THEN 1000 ELSE percent)
                      * totalLength
    IN  (scaled - 1000 * start) \div 1000

\* C10 (as claimed): on a session with totalLength > 0, seek(percent) sets the
\* index to the segment whose range holds the target and the offset to the
\* target less that segment's start, and leaves the segments and the playing
\* flag alone.
C10_SeekSelects ==
    [][\A percent \in SeekInputs :
          (Len(queue) > 0 /\ totalLength > 0 /\ SeekTo(percent)) =>
              /\ UNCHANGED <<queue, isPlaying>>
              /\ \A i \in 1..Len(queue) :
                    HoldsTarget(i, percent) =>
                        /\ currentTextIndex' = i - 1
                        /\ resumeCharIndex' = TargetOffset(i, percent)]_vars

\* C10 (amended): as claimed, except when the engine is Playing and the
\* selected segment holds nothing but white space from the offset on: seek()
\* then moves on to the next segment, index i + 1 and offset 0.
C10_SeekSelectsOrSkips ==
    [][\A percent \in SeekInputs :
          (Len(queue) > 0 /\ totalLength > 0 /\ SeekTo(percent)) =>
              /\ UNCHANGED <<queue, isPlaying>>
              /\ \A i \in 1..Len(queue) :
                    HoldsTarget(i, percent) =>
                        IF isPlaying
                           /\ trim(substring(queue[i], TargetOffset(i, percent))) = <<>>
                        THEN currentTextIndex' = i /\ resumeCharIndex' = 0
                        ELSE /\ currentTextIndex' = i - 1
                             /\ resumeCharIndex' = TargetOffset(i, percent)]_vars

\* seek() has published the last character of segment 0, which is white
\* space, cancelled the act in flight and moved on to segment 1.
C10_Witness ==
    /\ Playing /\ currentTextIndex = 1 /\ resumeCharIndex = 0
    /\ timeouts > 0 /\ synth.phase = "none" /\ events.canceled > 0
    /\ state.currentSegment = 1
    /\ state.progress = Pct(queueLengths[1] - 1, totalLength)

----------------------------------------------------------------------------
(* C11 *)

\* C11: on every active session seek(0) leaves index 0 and offset 0, and
\* seek(100) leaves the index of the last segment with offset 0 (the second
\* of the two edge policies the claim allows), also with a single segment.
C11_SeekEnds ==
    [][/\ (Len(queue) > 0 /\ SeekTo(0)) =>
              (currentTextIndex' = 0 /\ resumeCharIndex' = 0)
       /\ (Len(queue) > 0 /\ SeekTo(1000)) =>
              (currentTextIndex' = Len(queue) - 1 /\ resumeCharIndex' = 0)]_vars

C11_Witness ==
    /\ Paused /\ Len(queue) = 3 /\ currentTextIndex = 0 /\ resumeCharIndex > 0
    /\ ENABLED SeekTo(1000)

----------------------------------------------------------------------------
(* C12 *)

Abs(x) == IF x < 0 THEN 0 - x ELSE x

\* percent (in tenths) lands on a segment boundary: the start of a segment or
\* the end of the last one
OnBoundary(percent) ==
    \E i \in 0..Len(queueLengths) : percent * totalLength = 1000 * SumTo(queueLengths, i)

\* C12: for p in 0..100 the progress seek(p) publishes differs from p by at
\* most 100 * (length of the selected segment) / totalLength, and equals p
\* when p lands on a segment boundary.
C12_SeekProgressNear ==
    [][\A percent \in SeekInputs \cap 0..1000 :
          (Len(queue) > 0 /\ totalLength > 0 /\ SeekTo(percent)) =>
              LET n == state'.progress[1]
                  d == state'.progress[2]
                  len == queueLengths[state'.currentSegment]
              IN  /\ Abs(10 * n - percent * d) * totalLength <= 1000 * len * d
                  /\ OnBoundary(percent) => 10 * n = percent * d]_vars

\* percent (in tenths) lands on the start of a segment
OnStart(percent) ==
    \E i \in 0..(Len(queueLengths) - 1) :
        percent * totalLength = 1000 * SumTo(queueLengths, i)

\* C12 (amended): the bound as claimed; the published progress equals p when
\* p lands on the start of a segment; for p = 100, the end of the last
\* segment, seek() publishes the start of the last segment.
C12_SeekProgressNearStart ==
    [][\A percent \in SeekInputs \cap 0..1000 :
          (Len(queue) > 0 /\ totalLength > 0 /\ SeekTo(percent)) =>
              LET n == state'.progress[1]
                  d == state'.progress[2]
                  len == queueLengths[state'.currentSegment]
              IN  /\ Abs(10 * n - percent * d) * totalLength <= 1000 * len * d
                  /\ OnStart(percent) => 10 * n = percent * d
                  /\ percent = 1000 =>
                         state'.progress =
                             Pct(SumTo(queueLengths, Len(queue) - 1), totalLength)]_vars

C12_Witness ==
    /\ Paused /\ Len(queue) = 3 /\ currentTextIndex = 0
    /\ state.progress = <<0, 1>>
    /\ ENABLED SeekTo(400)

----------------------------------------------------------------------------
(* C13 *)

\* C13: with a session of n segments at index i, 0 <= i < n, nextChunk()
\* leaves the index at i + 1, or at 0 when i = n - 1, prevChunk() leaves it at
\* max(0, i - 1), and both leave the offset at 0.
C13_SkipMovesIndex ==
    [][(Len(queue) > 0 /\ currentTextIndex < Len(queue)) =>
          /\ NextChunk =>
                /\ currentTextIndex' = IF currentTextIndex < Len(queue) - 1
                                        THEN currentTextIndex + 1 ELSE 0
                /\ resumeCharIndex' = 0
          /\ PrevChunk =>
                /\ currentTextIndex' = IF currentTextIndex > 0
                                        THEN currentTextIndex - 1 ELSE 0
                /\ resumeCharIndex' = 0]_vars

----------------------------------------------------------------------------
(* C14 *)

\* C14: pause() in Playing leaves the engine Paused (isPlaying false,
\* hasContent true) with no speech act outstanding and the ambient audio
\* paused, and leaves the segments, the index and the offset as they were.
C14_PauseKeepsSession ==
    [][(Playing /\ Pause) =>
          /\ ~isPlaying' /\ ~state'.isPlaying /\ state'.hasContent
          /\ synth'.phase = "none"
          /\ audioPaused'
          /\ UNCHANGED <<queue, queueLengths, totalLength, currentTextIndex,
                         resumeCharIndex>>]_vars

C14_Witness ==
    /\ Playing /\ synth.phase = "speaking" /\ ~audioPaused
    /\ currentTextIndex > 0 /\ resumeCharIndex > 0
    /\ ENABLED Pause

----------------------------------------------------------------------------
(* C15 *)

\* C15: with no user operation after play(), and every speech act finishing
\* or failing with an error that is not an interruption, a session that has
\* content eventually has none: the index exhausts the queue and the session
\* is torn down.
C15_PlaybackEnds == state.hasContent ~> ~state.hasContent

\* The index has exhausted a queue of three segments; the teardown is pending.
C15_Witness ==
    /\ Playing /\ Len(queue) = 3 /\ currentTextIndex = 3
    /\ timeouts > 0 /\ state.hasContent

----------------------------------------------------------------------------
(* C16 *)

\* C16: in every state at rest, hasContent, in the engine's state and in the
\* snapshot each registered observer holds, is true exactly when the segment
\* sequence is not empty.
C16_HasContentIffSession ==
    /\ state.hasContent <=> Len(queue) > 0
    /\ \A o \in listeners : delivered[o].hasContent <=> Len(queue) > 0

C16_Witness ==
    /\ Paused /\ state.hasContent /\ listeners # {}
    /\ currentTextIndex = Len(queue)

----------------------------------------------------------------------------
(* C17 *)

\* The input texts of 500 characters without sentence punctuation
FiveHundred ==
    {t \in SegTexts : Len(t) = 500 /\ \A i \in 1..Len(t) : t[i] \notin Terminators}

\* C17: every segment of the queue has at most 200 characters, and the queue
\* of a 500-character text without sentence punctuation is three segments
\* of 200, 200 and 100 characters.
C17_SegmentsWithinLimit ==
    /\ \A i \in 1..Len(queue) : Len(queue[i]) <= ChunkLimit
    /\ \A t \in FiveHundred :
          (Len(queue) > 0 /\ queue = SegTable[t]) => queueLengths = <<200, 200, 100>>

----------------------------------------------------------------------------
(* C18 *)

\* C18: the queue play() builds holds no empty and no whitespace-only
\* segment, and play() of a text that is not empty or whitespace-only does
\* not build an empty queue.
C18_NoBlankSegment ==
    [][/\ \A i \in 1..Len(queue') : trim(queue'[i]) # <<>>
       /\ \A text \in SegTexts :
             (trim(text) # <<>> /\ PlayText(text)) => SegTable[text] # <<>>]_vars

----------------------------------------------------------------------------
(* C19 *)

\* C19: an observer holds the current state when subscribe() returns; an
\* observer that is not registered is not notified; every registered
\* observer holds the snapshot published last; subscribe() and the
\* unsubscription change nothing of the engine but the set of observers.
C19_ObserversIndependent ==
    [][/\ \A o \in listeners' \ listeners : delivered'[o] = state
       /\ \A o \in Observers \ listeners' : delivered'[o] = delivered[o]
       /\ \A o \in listeners' : delivered'[o] = state'
       /\ (Subscribe \/ Unsubscribe) =>
              UNCHANGED <<isPlaying, queue, queueLengths, totalLength,
                          currentTextIndex, resumeCharIndex, currentUtterance,
                          state, synth, events, timeouts, audioPaused,
                          audioCurrentTime, mediaMetadata, mediaPlaybackState>>]_vars

\* One observer has left and holds an old snapshot, the other is registered
\* and holds the current one.
C19_Witness ==
    \E o \in Observers \ listeners :
        /\ delivered[o] # NoSnapshot /\ delivered[o] # state
        /\ listeners # {}
        /\ Playing

----------------------------------------------------------------------------
(* C20 *)

\* C20: the error event of an utterance the engine cancelled, whether it had
\* begun being spoken ('interrupted') or not ('canceled'), changes neither the
\* index nor the offset and neither issues nor schedules a speech act.
C20_CancellationIgnored ==
    [][CancelEvent =>
          UNCHANGED <<currentTextIndex, resumeCharIndex, synth, timeouts, isPlaying>>]_vars

----------------------------------------------------------------------------
(* C21 *)

\* C21: a speech act is issued only after the act in flight, if any, has been
\* cancelled, and the callback of a superseded act (the error event of its
\* cancellation) changes neither the index nor the offset while another act
\* is outstanding.
C21_OneActAtATime ==
    [][/\ (synth.phase # "none" /\ synth'.phase = "queued" /\ synth' # synth) =>
              events'.canceled + events'.interrupted
                  = events.canceled + events.interrupted + 1
       /\ (CancelEvent /\ ActOutstanding) =>
              UNCHANGED <<currentTextIndex, resumeCharIndex>>]_vars

----------------------------------------------------------------------------
(* C22 *)

\* C22: with an active session, the progress published last is that of the
\* engine's index and offset, 100 * (characters before the position) /
\* totalLength, and lies in 0..100.
C22_ProgressIsPosition ==
    Len(queue) > 0 =>
        /\ state.progress = PositionPct
        /\ 0 <= state.progress[1] /\ state.progress[1] <= 100 * state.progress[2]

----------------------------------------------------------------------------
(* C23 *)

\* C23: while the index is below the segment count, the offset lies between
\* 0 and the length of the current segment.
C23_OffsetWithinSegment ==
    (Len(queue) > 0 /\ currentTextIndex < Len(queue)) =>
        (0 <= resumeCharIndex /\ resumeCharIndex <= queueLengths[currentTextIndex + 1])

----------------------------------------------------------------------------
(* C24 *)

\* C24: the index lies between 0 and the segment count in every state.
C24_IndexWithinQueue == 0 <= currentTextIndex /\ currentTextIndex <= Len(queue)

----------------------------------------------------------------------------
(* C25 *)

\* One session at a time, run without an operation on its position: play()
\* only from Idle with no event or continuation of an earlier session
\* pending, then pause(), resume() and the synthesizer's notifications.
RunNext ==
    \/ (~isPlaying /\ Len(queue) = 0 /\ timeouts = 0
          /\ events.canceled + events.interrupted = 0 /\ Play)
    \/ Pause
    \/ Resume
    \/ SetVolume
    \/ Subscribe
    \/ SpeechStart
    \/ SpeechBoundary
    \/ SpeechEnd
    \/ SpeechError
    \/ CancelEvent
    \/ Timeout
    \/ AudioAdvance

RunSpec == Init /\ [][RunNext]_vars

\* a <= b for fractions with positive denominators
FracLeq(a, b) == a[1] * b[2] <= b[1] * a[2]

\* C25: within a session, a step that is not seek, nextChunk, prevChunk, stop
\* or play and does not end the session never lowers the published progress;
\* pause() and resume() are among these steps.
C25_ProgressMonotone ==
    [][(state.hasContent /\ state'.hasContent /\ (Bystander \/ Resume)) =>
          FracLeq(state.progress, state'.progress)]_vars

----------------------------------------------------------------------------
(* C26 *)

\* C26: while Playing, the error (other than an interruption) or the end of
\* the speech act of segment i sets the index to i + 1 and the offset to 0,
\* keeps the session and the Playing state, and issues no speech act itself:
\* it leaves one more delayed continuation to issue it.
C26_FailureAdvances ==
    [][(Playing /\ (WideSpeechError \/ WideSpeechEnd)) =>
          /\ currentTextIndex' = synth.index + 1
          /\ resumeCharIndex' = 0
          /\ isPlaying' /\ queue' = queue
          /\ synth'.phase = "none"
          /\ timeouts' = timeouts + 1]_vars

----------------------------------------------------------------------------
(* C27 *)

\* The speech act for the engine's position after the step, just issued
ActForNewPosition ==
    synth' = [index |-> currentTextIndex', offset |-> resumeCharIndex',
              phase |-> "queued", boundary |-> -1]

\* The act in flight, if any, is cancelled by the step: its error event is due
CancelsOutstanding ==
    events'.canceled + events'.interrupted =
        events.canceled + events.interrupted + (IF ActOutstanding THEN 1 ELSE 0)

\* C27 (as claimed): seek(percent) while Playing cancels the act in flight and
\* issues one speech act for the new index and offset; while Paused it issues
\* none and the engine stays Paused; in Idle it changes nothing.
C27_SeekReSpeaks ==
    [][\A percent \in SeekInputs : SeekTo(percent) =>
          /\ Playing => (isPlaying' /\ CancelsOutstanding /\ ActForNewPosition)
          /\ Paused => UNCHANGED <<synth, currentUtterance, isPlaying, timeouts, events>>
          /\ Idle => UNCHANGED vars]_vars

\* C27 (amended): as claimed, except that while Playing a seek into a segment
\* that holds nothing but white space from the target offset on issues no
\* speech act: it moves on to the next segment with offset 0 and leaves a
\* delayed continuation to speak it.
C27_SeekReSpeaksOrSkips ==
    [][\A percent \in SeekInputs : SeekTo(percent) =>
          /\ Playing =>
                /\ isPlaying' /\ CancelsOutstanding
                /\ \/ /\ ActForNewPosition
                      /\ timeouts' = timeouts
                      /\ trim(substring(queue[currentTextIndex' + 1], resumeCharIndex')) # <<>>
                   \/ /\ synth'.phase = "none"
                      /\ timeouts' = timeouts + 1
                      /\ resumeCharIndex' = 0
                      /\ \E i \in 1..Len(queue) :
                            /\ HoldsTarget(i, percent)
                            /\ trim(substring(queue[i], TargetOffset(i, percent))) = <<>>
                            /\ currentTextIndex' = i
          /\ Paused => UNCHANGED <<synth, currentUtterance, isPlaying, timeouts, events>>
          /\ Idle => UNCHANGED vars]_vars

\* seek(99.5) while an act was outstanding: the act is cancelled and the one
\* just issued is for the last segment of three, from character 3.
C27_Witness ==
    /\ Playing /\ Len(queue) = 3
    /\ synth = [index |-> 2, offset |-> 3, phase |-> "queued", boundary |-> -1]
    /\ currentTextIndex = 2 /\ resumeCharIndex = 3
    /\ state.progress = <<90, 1>>
    /\ events.canceled + events.interrupted > 0

----------------------------------------------------------------------------
(* C28 *)

\* C28: every speech act, at the moment it is issued, is for the segment at
\* the current index and begins at the current offset, also when a delayed
\* continuation issues it after a seek, resume, nextChunk, prevChunk or play
\* made during the delay.
C28_ActMatchesPosition ==
    [][(synth'.phase = "queued" /\ synth' # synth) =>
          (synth'.index = currentTextIndex' /\ synth'.offset = resumeCharIndex')]_vars

----------------------------------------------------------------------------
(* C29 *)

\* C29: whenever the engine is at rest Playing with a session, a speech act
\* is outstanding or a delayed continuation is pending.
C29_PlayingNeverStalls ==
    Playing => (ActOutstanding \/ timeouts > 0)

\* Between two segments: the act of segment 0 has ended or failed and
\* only the continuation is left to go on with segment 1.
C29_Witness ==
    /\ Playing /\ ~ActOutstanding /\ timeouts = 1
    /\ currentTextIndex = 1 /\ Len(queue) = 3
    /\ events.canceled + events.interrupted = 0

----------------------------------------------------------------------------
(* C30 *)

\* A text with its white space left out
NonWhite(s) == SelectSeq(s, LAMBDA c : c \notin WhiteSpace)

\* The segments of a queue joined in order
RECURSIVE Concat(_)
Concat(ss) == IF ss = <<>> THEN <<>> ELSE Head(ss) \o Concat(Tail(ss))

\* C30: the segments play() builds from a text, joined in order and with
\* white space left out, are the text with white space left out.
C30_NoTextDropped ==
    [][\A text \in SegTexts :
          PlayText(text) => NonWhite(Concat(queue')) = NonWhite(text)]_vars

====
